---- MODULE Spec2Model ----
(***************************************************************************)
(* A model of the ai-code-summary repository:                              *)
(*   - local_code_summarizer.py  (LocalLLMSummarizer, batch_summarize)     *)
(*   - simple_code_summarizer.py (SimpleCodeSummarizer, main)              *)
(*   - ai_code_summary/files/file_manager.py (get_code_files, get_tree,    *)
(*     clear_tmp_folder, write_files_to_tmp_directory)                     *)
(*                                                                         *)
(* A Python str is a sequence of tokens; a token is one character of a     *)
(* file's content or one literal fragment of a format string.  The         *)
(* generation backend (ollama.generate) is opaque: every call either       *)
(* returns one of Responses or raises one of BackendErrors.                *)
(***************************************************************************)
EXTENDS Integers, Sequences, FiniteSets, TLC

VARIABLES
    mode,             \* which program runs: "chunk", "batch", "files" or "tree"
    pc,               \* position of the running program
    code_content,     \* summarize_code / summarize_large_code: the text
    chunk_size,       \* summarize_large_code: the chunk_size argument
    chunks,           \* summarize_large_code: the list of chunks
    chunk_summaries,  \* summarize_large_code: responses collected so far
    driver,           \* "local" (batch_summarize) or "simple" (main)
    file_paths,       \* the batch: the list of files to summarize
    idx,              \* the batch loop's position in file_paths (1-based)
    results,          \* local: the dict, in insertion order; simple: the list
    requests,         \* every prompt handed to ollama.generate, in order
    trail,            \* per file, what the loop did with it (observation)
    report,           \* the output file: whether it was written, and its text
    fs,               \* the directory tree under the root: path -> entry
    ignore_spec,      \* the caller's pathspec.PathSpec: its patterns, in order
    code_files,       \* what the last get_code_files call returned
    prev_code_files,  \* what the call before returned, same tree and spec
    tmp_dir,          \* the staging directory: whether it exists, its files
    staged,           \* the last write batch: what it found and wrote (observation)
    structure,        \* get_tree: what _scan_directory returned
    tree_args,        \* get_tree: show_hidden and max_depth of the last call
    tree_out          \* get_tree: the text returned

\* the variables of the summarizers
sumvars == <<code_content, chunk_size, chunks, chunk_summaries, driver,
             file_paths, idx, results, requests, trail, report>>

\* the variables of file_manager.py
filevars == <<fs, ignore_spec, code_files, prev_code_files, tmp_dir, staged>>

\* the variables of get_tree
treevars == <<structure, tree_args, tree_out>>

vars == <<mode, pc, sumvars, filevars, treevars>>

\* a staging directory that does not exist
NoDir == [exists |-> FALSE, files |-> <<>>]

\* no write batch yet
NoBatch == [done |-> FALSE, fresh |-> FALSE, before |-> {}, names |-> {},
            directory |-> <<>>, tree |-> <<>>, written |-> <<>>]

\* no call of get_code_files yet
NoResult == [called |-> FALSE, fresh |-> FALSE, spec |-> <<>>, files |-> <<>>]

\* the variables of file_manager.py while a summarizer runs
FilesIdle ==
    /\ fs = <<>>
    /\ ignore_spec = <<>>
    /\ code_files = NoResult
    /\ prev_code_files = NoResult
    /\ tmp_dir = NoDir
    /\ staged = NoBatch

\* the variables of the summarizers while another program runs
SumIdle ==
    /\ code_content = <<>>
    /\ chunk_size = 0
    /\ chunks = <<>>
    /\ chunk_summaries = <<>>
    /\ driver = "none"
    /\ file_paths = <<>>
    /\ idx = 0
    /\ results = <<>>
    /\ requests = <<>>
    /\ trail = <<>>
    /\ report = [written |-> FALSE, text |-> <<>>]

\* the variables of get_tree while another program runs
TreeIdle ==
    /\ structure = <<>>
    /\ tree_args = [called |-> FALSE, folder_path |-> <<>>, show_hidden |-> FALSE,
                    max_depth |-> <<>>]
    /\ tree_out = <<>>

-----------------------------------------------------------------------------
(* Bounds of the model. *)

\* longest content of the slicing specification
MaxLen == 5
\* widest chunk of the slicing specification
MaxWidth == 4
\* most files of one batch
MaxFiles == 2
\* most chunks one file's content is split into
MaxChunks == 2

-----------------------------------------------------------------------------
(* Python str.  A str is kept run-length encoded: a sequence of runs       *)
(* [ch, n], n >= 1 copies of the token ch, no two neighbouring runs with   *)
(* the same token.  "x" * 5000 is <<[ch |-> "x", n |-> 5000]>>.            *)

Min(a, b) == IF a < b THEN a ELSE b

\* the str holding n copies of token t
Rep(t, n) == IF n <= 0 THEN <<>> ELSE <<[ch |-> t, n |-> n]>>

\* a literal fragment of a format string
Lit(t) == Rep(t, 1)

\* s + t
Cat(s, t) ==
    IF s = <<>> THEN t
    ELSE IF t = <<>> THEN s
    ELSE IF s[Len(s)].ch = t[1].ch
         THEN SubSeq(s, 1, Len(s) - 1)
              \o <<[ch |-> t[1].ch, n |-> s[Len(s)].n + t[1].n]>>
              \o Tail(t)
         ELSE s \o t

\* len(s)
RECURSIVE StrLen(_)
StrLen(s) == IF s = <<>> THEN 0 ELSE Head(s).n + StrLen(Tail(s))

\* s[a:b] for 0 <= a
RECURSIVE Slice(_, _, _)
Slice(s, a, b) ==
    IF s = <<>> \/ b <= 0 \/ a >= b THEN <<>>
    ELSE LET r == Head(s)
         IN  IF a >= r.n
             THEN Slice(Tail(s), a - r.n, b - r.n)
             ELSE Cat(Rep(r.ch, Min(b, r.n) - a), Slice(Tail(s), 0, b - r.n))

\* the characters str.strip() removes
Whitespace == {" ", "\n", "\t"}

RECURSIVE LStrip(_)
LStrip(s) ==
    IF s # <<>> /\ Head(s).ch \in Whitespace THEN LStrip(Tail(s)) ELSE s

RECURSIVE RStrip(_)
RStrip(s) ==
    IF s # <<>> /\ s[Len(s)].ch \in Whitespace
    THEN RStrip(SubSeq(s, 1, Len(s) - 1)) ELSE s

\* a strip that removes nothing: the test "if content:"
StripNothing(s) == s

\* s.strip()
Strip(s) == RStrip(LStrip(s))

\* range(start, stop, step) for step >= 1
RECURSIVE Range(_, _, _)
Range(start, stop, step) ==
    IF start >= stop THEN <<>>
    ELSE <<start>> \o Range(start + step, stop, step)

\* sep.join(parts)
RECURSIVE Join(_, _)
Join(sep, parts) ==
    IF parts = <<>> THEN <<>>
    ELSE IF Len(parts) = 1 THEN parts[1]
    ELSE Cat(Cat(parts[1], sep), Join(sep, Tail(parts)))

\* the str of a plain sequence of characters
RECURSIVE Encode(_)
Encode(cs) == IF cs = <<>> THEN <<>> ELSE Cat(Lit(Head(cs)), Encode(Tail(cs)))

\* the plain sequence of characters of a str
RECURSIVE Decode(_)
Decode(s) ==
    IF s = <<>> THEN <<>>
    ELSE [i \in 1..Head(s).n |-> Head(s).ch] \o Decode(Tail(s))

-----------------------------------------------------------------------------
(* summarize_large_code: the fixed-size slicing. *)

\* a slicing whose slices stop one character early
ChunksDropping(content, size) ==
    LET starts == Range(0, StrLen(content), size)
    IN  [k \in 1..Len(starts) |->
            Slice(content, starts[k], starts[k] + size - (IF size > 1 THEN 1 ELSE 0))]

\* [code_content[i:i+chunk_size] for i in range(0, len(code_content), chunk_size)]
Chunks(content, size) ==
    LET starts == Range(0, StrLen(content), size)
    IN  [k \in 1..Len(starts) |-> Slice(content, starts[k], starts[k] + size)]

-----------------------------------------------------------------------------
(* The slicing on its own: any content, any chunk width >= 1. *)

Alphabet == {"x", "y"}

PlainTexts == UNION {[1..n -> Alphabet] : n \in 0..MaxLen}




NoReport == [written |-> FALSE, text |-> <<>>]

ChunkInit ==
    /\ mode = "chunk"
    /\ pc = "start"
    /\ code_content \in {Encode(t) : t \in PlainTexts}
    /\ chunk_size \in 1..MaxWidth
    /\ chunks = <<>>
    /\ chunk_summaries = <<>>
    /\ driver = "local"
    /\ file_paths = <<>>
    /\ idx = 0
    /\ results = <<>>
    /\ requests = <<>>
    /\ trail = <<>>
    /\ report = NoReport
    /\ FilesIdle
    /\ TreeIdle

\* summarize_large_code, lines 102-103: the list of chunks is built
SliceContent ==
    /\ mode = "chunk"
    /\ pc = "start"
    /\ chunks' = Chunks(code_content, chunk_size)
    /\ pc' = "sliced"
    /\ UNCHANGED <<mode, code_content, chunk_size, chunk_summaries, driver,
                   file_paths, idx, results, requests, trail, report>>
    /\ UNCHANGED <<filevars, treevars>>

ChunkNext == SliceContent

ChunkSpec == ChunkInit /\ [][ChunkNext]_vars

\* the characters of the chunks, concatenated in index order
RECURSIVE Flatten(_)
Flatten(cs) == IF cs = <<>> THEN <<>> ELSE Decode(Head(cs)) \o Flatten(Tail(cs))

\* ceil(a / b) for b >= 1
CeilDiv(a, b) == (a + b - 1) \div b

\* C1: the chunks, concatenated in index order, are the content exactly; every
\* chunk but the last is chunk_size characters long, the last is 1..chunk_size
\* long, and there are ceil(len(content) / chunk_size) of them.
C1_ChunksRoundTrip ==
    (mode = "chunk" /\ pc = "sliced") =>
        /\ Flatten(chunks) = Decode(code_content)
        /\ \A k \in 1..Len(chunks) - 1 : StrLen(chunks[k]) = chunk_size
        /\ Len(chunks) > 0 => StrLen(chunks[Len(chunks)]) \in 1..chunk_size
        /\ Len(chunks) = CeilDiv(StrLen(code_content), chunk_size)

\* a content of several chunks whose last chunk is short, sliced
C1_Witness ==
    /\ mode = "chunk" /\ pc = "sliced"
    /\ Len(chunks) >= 2
    /\ StrLen(chunks[Len(chunks)]) < chunk_size
    /\ \E k \in 1..Len(chunks) - 1 : chunks[k] # chunks[k + 1]

-----------------------------------------------------------------------------
(* The batch drivers: LocalLLMSummarizer.batch_summarize and the directory *)
(* branch of simple_code_summarizer.main, with summarize_code and          *)
(* summarize_large_code inlined at their call.  A step ends where the      *)
(* program waits for the file system or for the backend.                   *)

\* summarize_code: max_tokens=4000 (local), the literal 4000 (simple)
max_tokens == 4000

\* summarize_large_code: chunk_size=3000
DefaultChunkSize == 3000

\* the files a batch is drawn from (rglob results: distinct paths)
AllFiles ==
    << [path |-> "src/a.py", name |-> "a.py"],
       [path |-> "src/b.py", name |-> "b.py"],
       [path |-> "lib/a.py", name |-> "a.py"],
       [path |-> "lib/c.py", name |-> "c.py"] >>

Batches == {SubSeq(AllFiles, 1, n) : n \in 1..Min(MaxFiles, Len(AllFiles))}

\* a content of n characters that ends with a newline
Code(n) == Cat(Rep("x", n - 1), Lit("\n"))

\* the shortest content over max_tokens that is sliced into n chunks or more
LargeCode(n) ==
    LET least == (n - 1) * DefaultChunkSize + 1
    IN  Code(IF least > max_tokens THEN least ELSE max_tokens + 1)

\* what f.read() can return: nothing, blanks, code of max_tokens characters,
\* and code of MaxChunks chunks
FileContents ==
    {<<>>, Cat(Rep(" ", 2), Lit("\n")), Code(max_tokens), LargeCode(MaxChunks)}

\* str(e) of what open() / f.read() can raise
ReadErrors == {Lit("[Errno 13] Permission denied")}

\* response['response'] of a call that returns
Responses == {Lit("summary A"), Lit("summary B")}

\* str(e) of what ollama.generate can raise
BackendErrors == {Lit("connection refused")}

\* summarize_code, lines 60-74 (local) and 37-50 (simple)
DirectPrompt(d, file_path, content) ==
    Cat(Cat(Cat(Cat(Lit("Analyze this code and provide a comprehensive summary:\n\nFile: "),
                    Lit(file_path)),
                Lit("\nCode:\n")),
            content),
        IF d = "local"
        THEN Lit("\n\nProvide: Purpose, Key Components, Technologies, Architecture, Complexity, Dependencies")
        ELSE Lit("\n\nProvide: Purpose, Key Components, Technologies, Architecture, Dependencies"))

\* summarize_large_code, line 113 (local) and 84 (simple)
ChunkPrompt(file_path, chunk) ==
    Cat(Cat(Cat(Lit("Summarize this code section from "), Lit(file_path)),
            Lit(":\n\n")),
        chunk)

\* the tags numbered from 0: f"Section {i}: {summary}"
SectionsFromZero(summaries) ==
    [k \in 1..Len(summaries) |->
        LET i == k - 1
        IN  Cat(Cat(Cat(Lit("Section "), Lit(ToString(i))), Lit(": ")),
                summaries[k])]

\* f"Section {i+1}: {summary}" for i, summary in enumerate(chunk_summaries)
Sections(summaries) ==
    [k \in 1..Len(summaries) |->
        LET i == k - 1
        IN  Cat(Cat(Cat(Lit("Section "), Lit(ToString(i + 1))), Lit(": ")),
                summaries[k])]

\* summarize_large_code, lines 121-124 (local) and 93-96 (simple)
FinalPrompt(file_path, summaries) ==
    Cat(Cat(Cat(Lit("Create a comprehensive summary from these sections of "),
                Lit(file_path)),
            Lit(":\n\n")),
        Join(Lit("\n\n"), Sections(summaries)))

\* d[key] = value on a dict kept in insertion order
DictSet(d, key, value) ==
    IF \E i \in 1..Len(d) : d[i].key = key
    THEN [i \in 1..Len(d) |->
            IF d[i].key = key THEN [key |-> key, value |-> value] ELSE d[i]]
    ELSE Append(d, [key |-> key, value |-> value])

\* f"Error: {str(e)}"
ErrorText(e) == Cat(Lit("Error: "), e)

\* main, lines 171 and 175: f"## {file_path.name}\n\n{text}\n"
SimpleSection(name, text) ==
    Cat(Cat(Cat(Lit("## "), Lit(name)), Lit("\n\n")), Cat(text, Lit("\n")))

\* the success branch: results[str(file_path)] = summary (local, line 147),
\* results.append(...) (simple, line 171)
RecordSummary(d, res, file, summary) ==
    IF d = "local"
    THEN DictSet(res, file.path, summary)
    ELSE Append(res, SimpleSection(file.name, summary))

\* the except branch: line 156 (local), line 175 (simple)
RecordError(d, res, file, e) ==
    IF d = "local"
    THEN DictSet(res, file.path, ErrorText(e))
    ELSE Append(res, SimpleSection(file.name, ErrorText(e)))

BatchInit ==
    /\ mode = "batch"
    /\ pc = "loop"
    /\ driver \in {"local", "simple"}
    /\ file_paths \in Batches
    /\ idx = 1
    /\ results = <<>>
    /\ requests = <<>>
    /\ trail = <<>>
    /\ report = NoReport
    /\ code_content = <<>>
    /\ chunk_size = DefaultChunkSize
    /\ chunks = <<>>
    /\ chunk_summaries = <<>>
    /\ FilesIdle
    /\ TreeIdle

\* the file the loop is at
File == file_paths[idx]

\* one call of ollama.generate, as the log keeps it: the file the loop is at,
\* the call site, the prompt, and what the backend answered
Request(prompt, ok, text) ==
    [file |-> idx, site |-> pc, prompt |-> prompt, ok |-> ok, text |-> text]

\* the loop moves on to the next file; the trail keeps what was read and how
\* the iteration ended ("skipped", "ok", "read_error" or "backend_error")
NextFile(outcome, content, text) ==
    /\ trail' = Append(trail, [file |-> idx, outcome |-> outcome,
                               content |-> content, text |-> text])
    /\ idx' = idx + 1
    /\ pc' = "loop"
    /\ code_content' = <<>>
    /\ chunks' = <<>>
    /\ chunk_summaries' = <<>>

\* a loop body without its except clause: the exception ends the batch
CaughtEndsBatch(e) ==
    /\ results' = results
    /\ trail' = Append(trail, [file |-> idx, outcome |-> "backend_error",
                               content |-> code_content, text |-> e])
    /\ pc' = "done"
    /\ UNCHANGED <<idx, code_content, chunks, chunk_summaries>>

\* an exception reaches the except clause of the loop body
Caught(e) ==
    /\ results' = RecordError(driver, results, File, e)
    /\ NextFile(IF pc = "loop" THEN "read_error" ELSE "backend_error",
                code_content, e)

\* summarize_code returns to the loop body
Returned(summary) ==
    /\ results' = RecordSummary(driver, results, File, summary)
    /\ NextFile("ok", code_content, summary)

\* open() or f.read() raises
OpenRaises ==
    /\ mode = "batch" /\ pc = "loop" /\ idx <= Len(file_paths)
    /\ \E e \in ReadErrors : Caught(e)
    /\ UNCHANGED <<mode, chunk_size, driver, file_paths, requests, report>>
    /\ UNCHANGED <<filevars, treevars>>

\* the file is read; blank content is skipped, other content enters
\* summarize_code, which enters summarize_large_code over max_tokens
ReadFile ==
    /\ mode = "batch" /\ pc = "loop" /\ idx <= Len(file_paths)
    /\ \E content \in FileContents :
        IF Strip(content) = <<>>
        THEN /\ NextFile("skipped", content, <<>>)
             /\ UNCHANGED results
        ELSE /\ code_content' = content
             /\ IF StrLen(content) > max_tokens
                THEN /\ chunks' = Chunks(content, chunk_size)
                     /\ pc' = IF chunks' = <<>> THEN "final" ELSE "chunk"
                ELSE /\ chunks' = <<>>
                     /\ pc' = "direct"
             /\ chunk_summaries' = <<>>
             /\ UNCHANGED <<results, trail, idx>>
    /\ UNCHANGED <<mode, chunk_size, driver, file_paths, requests, report>>
    /\ UNCHANGED <<filevars, treevars>>

\* summarize_code: the one request of a content within max_tokens returns
DirectReturns ==
    /\ mode = "batch" /\ pc = "direct"
    /\ \E r \in Responses :
        /\ requests' = Append(requests,
               Request(DirectPrompt(driver, File.path, code_content), TRUE, r))
        /\ Returned(r)
    /\ UNCHANGED <<mode, chunk_size, driver, file_paths, report>>
    /\ UNCHANGED <<filevars, treevars>>

\* ... or raises: summarize_code re-raises, the loop body catches
DirectRaises ==
    /\ mode = "batch" /\ pc = "direct"
    /\ \E e \in BackendErrors :
        /\ requests' = Append(requests,
               Request(DirectPrompt(driver, File.path, code_content), FALSE, e))
        /\ Caught(e)
    /\ UNCHANGED <<mode, chunk_size, driver, file_paths, report>>
    /\ UNCHANGED <<filevars, treevars>>

\* the chunk the chunk loop is at
ChunkAt == chunks[Len(chunk_summaries) + 1]

\* summarize_large_code: the request of the next chunk returns
ChunkReturns ==
    /\ mode = "batch" /\ pc = "chunk"
    /\ \E r \in Responses :
        /\ requests' = Append(requests,
               Request(ChunkPrompt(File.path, ChunkAt), TRUE, r))
        /\ chunk_summaries' = Append(chunk_summaries, r)
        /\ pc' = IF Len(chunk_summaries') = Len(chunks) THEN "final" ELSE "chunk"
    /\ UNCHANGED <<mode, code_content, chunk_size, chunks, driver, file_paths, idx, results, trail, report>>
    /\ UNCHANGED <<filevars, treevars>>

\* a chunk loop that catches: the description stands in for the chunk's
\* summary and the loop goes on
ChunkRaisesGoesOn ==
    /\ mode = "batch" /\ pc = "chunk"
    /\ \E e \in BackendErrors :
        /\ requests' = Append(requests,
               Request(ChunkPrompt(File.path, ChunkAt), FALSE, e))
        /\ chunk_summaries' = Append(chunk_summaries, e)
        /\ pc' = IF Len(chunk_summaries') = Len(chunks) THEN "final" ELSE "chunk"
    /\ UNCHANGED <<mode, code_content, chunk_size, chunks, driver, file_paths, idx, results, trail, report>>
    /\ UNCHANGED <<filevars, treevars>>

\* ... or raises: nothing in summarize_large_code catches
ChunkRaises ==
    /\ mode = "batch" /\ pc = "chunk"
    /\ \E e \in BackendErrors :
        /\ requests' = Append(requests,
               Request(ChunkPrompt(File.path, ChunkAt), FALSE, e))
        /\ Caught(e)
    /\ UNCHANGED <<mode, chunk_size, driver, file_paths, report>>
    /\ UNCHANGED <<filevars, treevars>>

\* summarize_large_code: the merge request returns the file's summary
FinalReturns ==
    /\ mode = "batch" /\ pc = "final"
    /\ \E r \in Responses :
        /\ requests' = Append(requests,
               Request(FinalPrompt(File.path, chunk_summaries), TRUE, r))
        /\ Returned(r)
    /\ UNCHANGED <<mode, chunk_size, driver, file_paths, report>>
    /\ UNCHANGED <<filevars, treevars>>

\* a merge failure that falls back on the chunk summaries
FinalRaisesKeepsChunks ==
    /\ mode = "batch" /\ pc = "final"
    /\ \E e \in BackendErrors :
        /\ requests' = Append(requests,
               Request(FinalPrompt(File.path, chunk_summaries), FALSE, e))
        /\ Returned(Join(Lit("\n\n"), chunk_summaries))
    /\ UNCHANGED <<mode, chunk_size, driver, file_paths, report>>
    /\ UNCHANGED <<filevars, treevars>>

\* ... or raises
FinalRaises ==
    /\ mode = "batch" /\ pc = "final"
    /\ \E e \in BackendErrors :
        /\ requests' = Append(requests,
               Request(FinalPrompt(File.path, chunk_summaries), FALSE, e))
        /\ Caught(e)
    /\ UNCHANGED <<mode, chunk_size, driver, file_paths, report>>
    /\ UNCHANGED <<filevars, treevars>>

\* a section written without its rule: f"# {file_path}\n\n{summary}\n\n"
LocalSectionNoRule(entry) ==
    Cat(Cat(Cat(Lit("# "), Lit(entry.key)), Lit("\n\n")),
        Cat(entry.value, Lit("\n\n")))

\* batch_summarize, line 162: f"# {file_path}\n\n{summary}\n\n---\n\n"
LocalSection(entry) ==
    Cat(Cat(Cat(Lit("# "), Lit(entry.key)), Lit("\n\n")),
        Cat(entry.value, Cat(Cat(Lit("\n\n"), Lit("---")), Lit("\n\n"))))

\* every f.write of the loop at lines 161-162, in order
RECURSIVE LocalReport(_)
LocalReport(res) ==
    IF res = <<>> THEN <<>>
    ELSE Cat(LocalSection(Head(res)), LocalReport(Tail(res)))

\* main, line 178: "\n".join(results)
SimpleReport(res) == Join(Lit("\n"), res)

\* after the loop: the report is written when an output file was given
\* (output_file of batch_summarize, args.output of main, read only here)
SaveResults ==
    /\ mode = "batch" /\ pc = "loop" /\ idx > Len(file_paths)
    /\ \E given \in BOOLEAN :
          report' = IF given
                    THEN [written |-> TRUE,
                          text |-> IF driver = "local" THEN LocalReport(results)
                                   ELSE SimpleReport(results)]
                    ELSE report
    /\ pc' = "done"
    /\ UNCHANGED <<mode, code_content, chunk_size, chunks, chunk_summaries, driver,
                   file_paths, idx, results, requests, trail>>
    /\ UNCHANGED <<filevars, treevars>>

BatchNext ==
    \/ OpenRaises
    \/ ReadFile
    \/ DirectReturns
    \/ DirectRaises
    \/ ChunkReturns
    \/ ChunkRaises
    \/ FinalReturns
    \/ FinalRaises
    \/ SaveResults

BatchSpec == BatchInit /\ [][BatchNext]_vars

\* a batch of three files
Triple == <<AllFiles[1], AllFiles[2], AllFiles[3]>>

TripleInit ==
    /\ mode = "batch"
    /\ pc = "loop"
    /\ driver \in {"local", "simple"}
    /\ file_paths = Triple
    /\ idx = 1
    /\ results = <<>>
    /\ requests = <<>>
    /\ trail = <<>>
    /\ report = NoReport
    /\ code_content = <<>>
    /\ chunk_size = DefaultChunkSize
    /\ chunks = <<>>
    /\ chunk_summaries = <<>>
    /\ FilesIdle
    /\ TreeIdle

TripleSpec == TripleInit /\ [][BatchNext]_vars

-----------------------------------------------------------------------------
(* What the batch claims are stated over. *)

\* the iterations that were not skipped, in order
Attempted == SelectSeq(trail, LAMBDA t : t.outcome # "skipped")

Failed(t) == t.outcome \in {"read_error", "backend_error"}

\* the payload an attempted file must have in the result
Payload(t) == IF Failed(t) THEN <<[ch |-> "Error: ", n |-> 1]>> \o t.text ELSE t.text

\* entry k of the result carries file f (its path, or its name in main) and text
IsEntryOf(k, f, text) ==
    IF driver = "local"
    THEN results[k] = [key |-> f.path, value |-> text]
    ELSE results[k] = <<[ch |-> "## ", n |-> 1], [ch |-> f.name, n |-> 1],
                        [ch |-> "\n\n", n |-> 1]>> \o text \o <<[ch |-> "\n", n |-> 1]>>

\* C2: a file whose processing raises (at open/read or at a backend call) does
\* not stop the batch: when the batch ends every file has been processed in
\* order, the result has one entry per file that was not skipped, a failed
\* file's entry is "Error: <description>" and every other entry is the summary.
C2_FailureIsolation ==
    mode = "batch" =>
        /\ pc = "done" =>
              /\ Len(trail) = Len(file_paths)
              /\ \A i \in 1..Len(trail) : trail[i].file = i
        /\ Len(results) = Len(Attempted)
        /\ \A k \in 1..Len(Attempted) :
              IsEntryOf(k, file_paths[Attempted[k].file], Payload(Attempted[k]))

\* a batch that ended, in which a file that failed is followed by a file that
\* was summarized, and every file has its entry
C2_Witness ==
    /\ mode = "batch" /\ pc = "done"
    /\ \E i \in 1..Len(trail) - 1 :
          /\ Failed(trail[i])
          /\ trail[i + 1].outcome = "ok"
          /\ Len(results) = Len(trail)

\* the requests issued while the loop was at file i, in order
RequestsOf(i) == SelectSeq(requests, LAMBDA q : q.file = i)

\* the position in the result of the entry of attempted file i
EntryIndex(i) == Cardinality({j \in 1..i : trail[j].outcome # "skipped"})

\* a literal fragment, spelled as a run
Frag(t) == <<[ch |-> t, n |-> 1]>>

\* "Section 1: s1", blank line, "Section 2: s2", ... for the summaries from k on
RECURSIVE TaggedFrom(_, _)
TaggedFrom(k, summaries) ==
    IF k > Len(summaries) THEN <<>>
    ELSE Frag("Section ") \o Frag(ToString(k)) \o Frag(": ") \o summaries[k]
         \o (IF k < Len(summaries) THEN Frag("\n\n") ELSE <<>>)
         \o TaggedFrom(k + 1, summaries)

\* the requests q of one file end with the merge request of content: the N
\* chunk requests came first, in chunk order, all answered, and the merge
\* prompt carries their N responses tagged Section 1..N
MergeAfterChunks(q, path, content) ==
    LET N == CeilDiv(StrLen(content), DefaultChunkSize)
    IN  /\ Len(q) = N + 1
        /\ \A k \in 1..N :
              /\ q[k].site = "chunk" /\ q[k].ok
              /\ q[k].prompt =
                    Frag("Summarize this code section from ") \o Frag(path)
                    \o Frag(":\n\n")
                    \o Slice(content, (k - 1) * DefaultChunkSize, k * DefaultChunkSize)
        /\ q[N + 1].site = "final"
        /\ q[N + 1].prompt =
              Frag("Create a comprehensive summary from these sections of ")
              \o Frag(path) \o Frag(":\n\n")
              \o TaggedFrom(1, [k \in 1..N |-> q[k].text])

\* C3: a file whose backend calls all return costs exactly 1 request when
\* len(content) <= 4000 and N + 1 requests otherwise (N chunks of width 3000):
\* the N chunk requests in chunk order, then the one merge request, whose
\* prompt holds the N chunk summaries tagged Section 1..N in order; the value
\* returned is the merge response.
C3_RequestProtocol ==
    mode = "batch" =>
        \A i \in 1..Len(trail) :
            LET t == trail[i]
                q == RequestsOf(i)
            IN  /\ t.outcome = "ok" =>
                      /\ \A k \in 1..Len(q) : q[k].ok
                      /\ t.text = q[Len(q)].text
                      /\ IF StrLen(t.content) <= max_tokens
                         THEN Len(q) = 1 /\ q[1].site = "direct"
                         ELSE MergeAfterChunks(q, file_paths[i].path, t.content)
                /\ (\E k \in 1..Len(q) : q[k].site = "final") =>
                      MergeAfterChunks(q, file_paths[i].path, t.content)

\* a batch in which a chunked file and a file within the threshold were both
\* summarized, the chunk summaries of the chunked file differing
C3_Witness ==
    /\ mode = "batch" /\ pc = "done"
    /\ \E i, j \in 1..Len(trail) :
          /\ trail[i].outcome = "ok" /\ StrLen(trail[i].content) > max_tokens
          /\ RequestsOf(i)[1].text # RequestsOf(i)[2].text
          /\ trail[j].outcome = "ok" /\ StrLen(trail[j].content) <= max_tokens
          /\ Len(RequestsOf(j)) = 1

\* the tokens of a text
Tokens(text) == {text[k].ch : k \in 1..Len(text)}

\* the text of the result's entry k
EntryText(k) == IF driver = "local" THEN results[k].value ELSE results[k]

\* C4: when the merge request of a chunked file fails after its chunk requests
\* succeeded, the file is a failure: summarize_large_code returns nothing, the
\* file's one entry is "Error: <description>", and no chunk summary is in it.
C4_MergeFailureSupersedes ==
    mode = "batch" =>
        \A n \in 1..Len(requests) :
            LET q == requests[n]
                t == trail[q.file]
                k == EntryIndex(q.file)
            IN  (q.site = "final" /\ ~q.ok) =>
                    /\ t.outcome = "backend_error" /\ t.text = q.text
                    /\ IsEntryOf(k, file_paths[q.file], Frag("Error: ") \o q.text)
                    /\ \A c \in 1..Len(RequestsOf(q.file)) - 1 :
                          Tokens(RequestsOf(q.file)[c].text) \cap Tokens(EntryText(k)) = {}
                    /\ driver = "local" =>
                          Cardinality({e \in 1..Len(results) :
                              results[e].key = file_paths[q.file].path}) = 1

\* a merge request failed after chunk requests that returned summaries
C4_Witness ==
    /\ mode = "batch"
    /\ \E n \in 2..Len(requests) :
          /\ requests[n].site = "final" /\ ~requests[n].ok
          /\ requests[n - 1].site = "chunk" /\ requests[n - 1].ok
          /\ requests[n - 1].file = requests[n].file
          /\ Len(results) >= 1

\* a content that was read and holds nothing but whitespace
BlankRead(t) ==
    /\ t.outcome # "read_error"
    /\ \A k \in 1..Len(t.content) : t.content[k].ch \in {" ", "\t", "\n", "\r"}

\* C5: a file whose content is empty or whitespace-only is skipped: no request
\* is issued for it and the result has no entry for it, while a file that
\* fails has its explicit failure entry.
C5_BlankSkipped ==
    mode = "batch" =>
        /\ Len(results) = Cardinality({i \in 1..Len(trail) : ~BlankRead(trail[i])})
        /\ \A i \in 1..Len(trail) :
              /\ BlankRead(trail[i]) =>
                    /\ RequestsOf(i) = <<>>
                    /\ driver = "local" =>
                          \A e \in 1..Len(results) : results[e].key # file_paths[i].path
              /\ Failed(trail[i]) =>
                    IsEntryOf(EntryIndex(i), file_paths[i],
                              Frag("Error: ") \o trail[i].text)

\* a batch that ended with a whitespace-only file skipped and a failed file
\* recorded
C5_Witness ==
    /\ mode = "batch" /\ pc = "done"
    /\ \E i, j \in 1..Len(trail) :
          /\ BlankRead(trail[i]) /\ trail[i].content # <<>>
          /\ Failed(trail[j])
    /\ Len(results) = Len(trail) - 1

\* the rule lines of a text
RECURSIVE RuleCount(_)
RuleCount(text) ==
    IF text = <<>> THEN 0
    ELSE (IF Head(text).ch = "---" THEN Head(text).n ELSE 0) + RuleCount(Tail(text))

\* the section the report must hold for attempted iteration t, as characters
SectionOf(t) ==
    IF driver = "local"
    THEN <<"# ", file_paths[t.file].path, "\n\n">> \o Decode(Payload(t))
         \o <<"\n\n", "---", "\n\n">>
    ELSE <<"## ", file_paths[t.file].name, "\n\n">> \o Decode(Payload(t)) \o <<"\n">>

\* the sections of the attempted iterations from k on; main joins with "\n"
RECURSIVE SectionsFrom(_)
SectionsFrom(k) ==
    IF k > Len(Attempted) THEN <<>>
    ELSE SectionOf(Attempted[k])
         \o (IF driver = "simple" /\ k < Len(Attempted) THEN <<"\n">> ELSE <<>>)
         \o SectionsFrom(k + 1)

-----------------------------------------------------------------------------
(* file_manager.py.  A file name is its sequence of characters; a path is   *)
(* its sequence of names.  The tree under the root is a function from the  *)
(* paths that exist, relative to the root, to [kind, size, open, text]:     *)
(* open is whether a directory can be listed or a file opened, text is a   *)
(* file's content.                                                         *)

\* _CODE_EXTENSIONS, lines 10-27
CODE_EXTENSIONS ==
    { <<".", "c">>,
      <<".", "c", "p", "p">>,
      <<".", "c", "s">>,
      <<".", "c", "s", "s">>,
      <<".", "d", "e", "f", "a", "u", "l", "t">>,
      <<".", "h", "t", "m", "l">>,
      <<".", "j", "a", "v", "a">>,
      <<".", "j", "s">>,
      <<".", "j", "s", "x">>,
      <<".", "m", "d">>,
      <<".", "p", "y">>,
      <<".", "t", "o", "m", "l">>,
      <<".", "t", "s">>,
      <<".", "t", "s", "x">>,
      <<".", "y", "m", "l">>,
      <<"D", "o", "c", "k", "e", "r", "f", "i", "l", "e">> }

A_PY == <<"a", ".", "p", "y">>
DOCKERFILE == <<"D", "o", "c", "k", "e", "r", "f", "i", "l", "e">>
DOT_ENV == <<".", "e", "n", "v">>
LIB_PY == <<"l", "i", "b", ".", "p", "y">>
M_JS == <<"m", ".", "j", "s">>
SRC == <<"s", "r", "c">>
BUILD == <<"b", "u", "i", "l", "d">>
PROJ == <<"p", "r", "o", "j">>

\* a byte that is not UTF-8
INVALID == "0xFF"

\* the names of the model, in two of the orders a directory listing may have
ListingOrders ==
    { <<A_PY, BUILD, DOCKERFILE, DOT_ENV, LIB_PY, M_JS, SRC>>,
      <<SRC, M_JS, LIB_PY, DOT_ENV, DOCKERFILE, BUILD, A_PY>> }

\* every entry a tree of the model may hold: a directory named like a code
\* file, a hidden file, an empty file, two files of one name, three levels
Skeleton ==
    ( <<DOCKERFILE>>   :> [kind |-> "file", size |-> 0,    open |-> TRUE, text |-> <<>>] ) @@
    ( <<DOT_ENV>>      :> [kind |-> "file", size |-> 17,   open |-> TRUE, text |-> Rep("e", 17)] ) @@
    ( <<LIB_PY>>       :> [kind |-> "dir",  size |-> 4096, open |-> TRUE, text |-> <<>>] ) @@
    ( <<LIB_PY, M_JS>> :> [kind |-> "file", size |-> 1536, open |-> TRUE,
                           text |-> Rep("m", 1000) \o Lit(INVALID) \o Rep("m", 535)] ) @@
    ( <<SRC>>          :> [kind |-> "dir",  size |-> 4096, open |-> TRUE, text |-> <<>>] ) @@
    ( <<SRC, A_PY>>    :> [kind |-> "file", size |-> 1280, open |-> TRUE, text |-> Rep("a", 1280)] ) @@
    ( <<SRC, BUILD>>   :> [kind |-> "dir",  size |-> 4096, open |-> TRUE, text |-> <<>>] ) @@
    ( <<SRC, BUILD, A_PY>> :>
                          [kind |-> "file", size |-> 2048, open |-> TRUE, text |-> Rep("b", 2048)] )

\* the path of the directory that holds p
Parent(p) == SubSeq(p, 1, Len(p) - 1)

\* a set of paths that holds the directory of each of its paths
Closed(paths) == \A p \in paths : Len(p) > 1 => Parent(p) \in paths

\* the directories of the model that may refuse to be listed
Lockable == {<<SRC, BUILD>>}

\* the trees of the model
AllTrees ==
    { [p \in paths |->
          IF p \in locked THEN [Skeleton[p] EXCEPT !.open = FALSE] ELSE Skeleton[p]] :
      <<paths, locked>> \in
          { <<ps, ls>> \in (SUBSET DOMAIN Skeleton) \X (SUBSET Lockable) :
                /\ Closed(ps)
                /\ ls \subseteq ps
                /\ \A l \in ls : \E q \in ps : Len(q) > Len(l) /\ Parent(q) = l } }

\* the names in directory dir of tree t (dir = <<>>: the root), in a listing order
Listing(t, dir, order) ==
    SelectSeq(order, LAMBDA name : dir \o <<name>> \in DOMAIN t)

\* Path.suffix of a name: from its last dot on, unless that dot is the first
\* or the last character
Suffix(name) ==
    LET dots == {i \in 1..Len(name) : name[i] = "."}
    IN  IF dots = {} THEN <<>>
        ELSE LET i == CHOOSE d \in dots : \A e \in dots : e <= d
             IN  IF 1 < i /\ i < Len(name) THEN SubSeq(name, i, Len(name)) ELSE <<>>

\* an _is_code_file that forgets the Dockerfile name
IsCodeFileBySuffix(file) == Suffix(file[Len(file)]) \in CODE_EXTENSIONS

\* _is_code_file, line 101
IsCodeFile(file) ==
    Suffix(file[Len(file)]) \in CODE_EXTENSIONS \/ file[Len(file)] = DOCKERFILE

\* a gitignore pattern: a glob on one name ("*" then text, or the text itself),
\* for directories only when it ends with "/", negated when it starts with "!"
Pattern(negated, dir_only, star, text) ==
    [negated |-> negated, dir_only |-> dir_only, star |-> star, text |-> text]

\* the IgnoreSpecs of the model: none; "build/"; "*.py" then "!a.py"
IgnoreSpecs ==
    { <<>>,
      << Pattern(FALSE, TRUE, FALSE, BUILD) >>,
      << Pattern(FALSE, FALSE, TRUE, <<".", "p", "y">>),
         Pattern(TRUE, FALSE, FALSE, A_PY) >> }

\* the glob of a pattern matches a name
GlobMatches(pat, name) ==
    IF pat.star
    THEN /\ Len(name) >= Len(pat.text)
         /\ SubSeq(name, Len(name) - Len(pat.text) + 1, Len(name)) = pat.text
    ELSE name = pat.text

\* a pattern matches a path when its glob matches one of the path's names (a
\* directory of the path, for a directory pattern)
PatternMatches(pat, rel) ==
    \E k \in 1..Len(rel) :
        /\ GlobMatches(pat, rel[k])
        /\ pat.dir_only => k < Len(rel)

\* spec.match_file(rel): the last pattern that matches decides
MatchFile(spec, rel) ==
    LET hits == {k \in 1..Len(spec) : PatternMatches(spec[k], rel)}
    IN  /\ hits # {}
        /\ ~spec[CHOOSE k \in hits : \A h \in hits : h <= k].negated

\* sequences, concatenated
RECURSIVE Concat(_)
Concat(seqs) == IF seqs = <<>> THEN <<>> ELSE Head(seqs) \o Concat(Tail(seqs))

\* os.walk(base_dir), flattened as line 80 does: Path(root) / file for the
\* files of each directory, then the same for each directory listed in it
RECURSIVE Walk(_, _, _, _)
Walk(t, base, dir, order) ==
    LET names == Listing(t, dir, order)
        files == SelectSeq(names, LAMBDA n : t[dir \o <<n>>].kind # "dir")
        dirs  == SelectSeq(names, LAMBDA n : t[dir \o <<n>>].kind = "dir")
    IN  [k \in 1..Len(files) |-> base \o dir \o <<files[k]>>]
        \o Concat([k \in 1..Len(dirs) |->
               IF t[dir \o <<dirs[k]>>].open
               THEN Walk(t, base, dir \o <<dirs[k]>>, order)
               ELSE <<>>])

\* file.relative_to(base_dir)
RelativeTo(file, base) == SubSeq(file, Len(base) + 1, Len(file))

\* get_code_files, lines 77-88
GetCodeFiles(t, base, spec, order) ==
    LET all_files == Walk(t, base, <<>>, order)
        code_files_ == SelectSeq(all_files, IsCodeFile)
    IN  SelectSeq(code_files_, LAMBDA file : ~MatchFile(spec, RelativeTo(file, base)))

\* str(path): its names joined by "/"
PathStr(path) == Join(Lit("/"), [k \in 1..Len(path) |-> Encode(path[k])])

\* bytes.decode("utf-8", errors="ignore"), line 42: the undecodable bytes
\* are dropped
RECURSIVE DecodeIgnore(_)
DecodeIgnore(bytes) ==
    IF bytes = <<>> THEN <<>>
    ELSE IF Head(bytes).ch = INVALID THEN DecodeIgnore(Tail(bytes))
    ELSE Cat(<<Head(bytes)>>, DecodeIgnore(Tail(bytes)))

\* a read_file called with append_tree = False
ReadFileTextNoTree(t, base, file_path, tree) ==
    LET entry == t[RelativeTo(file_path, base)]
    IN  IF entry.open THEN DecodeIgnore(entry.text) ELSE <<>>

\* read_file, lines 40-49: the path, the tree text and the content, or ""
\* when the file cannot be opened
ReadFileText(t, base, file_path, tree) ==
    LET entry == t[RelativeTo(file_path, base)]
    IN  IF entry.open
        THEN Cat(Cat(Cat(Cat(PathStr(file_path), Lit("\n")), tree), Lit("\n")),
                 DecodeIgnore(entry.text))
        ELSE <<>>

\* a clear_tmp_folder that only creates the directory
ClearTmpFolderKeeping(dir) == [exists |-> TRUE, files |-> dir.files]

\* clear_tmp_folder, lines 59-63: rmtree when it exists, then mkdir
ClearTmpFolder(dir) ==
    LET removed == IF dir.exists THEN NoDir ELSE dir
    IN  [exists |-> TRUE, files |-> removed.files]

\* one more file in a directory, or a file of that name overwritten
WithFile(dir, name, content) ==
    [exists |-> TRUE,
     files |-> [n \in DOMAIN dir.files \cup {name} |->
                   IF n = name THEN content ELSE dir.files[n]]]

\* _write_file, lines 128-135: the content goes to output_dir / name
RECURSIVE WriteFiles(_, _)
WriteFiles(dir, file_contents) ==
    IF file_contents = <<>> \/ ~dir.exists THEN dir
    ELSE LET file_info == Head(file_contents)
             file_path == file_info[1]
         IN  WriteFiles(WithFile(dir, file_path[Len(file_path)], file_info[2]),
                        Tail(file_contents))

\* write_files_to_tmp_directory, lines 114-116
WriteFilesToTmpDirectory(t, base, spec, order, dir, tree) ==
    LET code_files_ == GetCodeFiles(t, base, spec, order)
        file_contents == [k \in 1..Len(code_files_) |->
                             <<code_files_[k], ReadFileText(t, base, code_files_[k], tree)>>]
    IN  WriteFiles(dir, file_contents)

\* the directory argument of the calls
Directory == <<PROJ>>

\* the tree text handed to write_files_to_tmp_directory
TreeTexts == {Lit("proj/ (tree)"), <<>>}

\* the directory argument of a write batch: relative, or absolute (the name
\* before the first "/" is empty)
Directories == {<<PROJ>>, << <<>>, PROJ >>}

\* the trees of a write batch: a file may be unreadable
StageTrees ==
    AllTrees \cup
    { [t EXCEPT ![<<LIB_PY, M_JS>>].open = FALSE] :
        t \in {u \in AllTrees : <<LIB_PY, M_JS>> \in DOMAIN u} }

OLD_TXT == <<"o", "l", "d", ".", "p", "y">>

FilesInit ==
    /\ mode = "files"
    /\ pc = "idle"
    /\ fs \in AllTrees
    /\ ignore_spec \in IgnoreSpecs
    /\ code_files = NoResult
    /\ prev_code_files = NoResult
    /\ tmp_dir = NoDir
    /\ staged = NoBatch
    /\ SumIdle
    /\ TreeIdle

\* the staging directory before the first batch: absent, or left by an
\* earlier run
StageInit ==
    /\ mode = "stage"
    /\ pc = "idle"
    /\ fs \in StageTrees
    /\ ignore_spec \in IgnoreSpecs
    /\ code_files = NoResult
    /\ prev_code_files = NoResult
    /\ tmp_dir \in {NoDir, [exists |-> TRUE, files |-> (OLD_TXT :> Lit("left by an earlier run"))]}
    /\ staged = NoBatch
    /\ SumIdle
    /\ TreeIdle

\* the tree changed: what the calls returned is no longer of this tree
Stale ==
    /\ code_files' = [code_files EXCEPT !.fresh = FALSE]
    /\ prev_code_files' = NoResult
    /\ staged' = [staged EXCEPT !.fresh = FALSE]

\* somebody creates an entry of the skeleton in a directory that exists
CreateEntry ==
    /\ mode \in {"files", "stage"}
    /\ \E p \in DOMAIN Skeleton \ DOMAIN fs :
          /\ Len(p) > 1 => Parent(p) \in DOMAIN fs
          /\ fs' = [q \in DOMAIN fs \cup {p} |-> IF q = p THEN Skeleton[p] ELSE fs[q]]
    /\ Stale
    /\ UNCHANGED <<mode, pc, ignore_spec, tmp_dir, sumvars, treevars>>

\* somebody removes a file or an empty directory
RemoveEntry ==
    /\ mode \in {"files", "stage"}
    /\ \E p \in DOMAIN fs :
          /\ \A q \in DOMAIN fs : Len(q) > Len(p) => SubSeq(q, 1, Len(p)) # p
          /\ fs' = [q \in DOMAIN fs \ {p} |-> fs[q]]
    /\ Stale
    /\ UNCHANGED <<mode, pc, ignore_spec, tmp_dir, sumvars, treevars>>

\* a call of get_code_files(directory, spec)
CallGetCodeFiles ==
    /\ mode = "files" /\ pc = "idle"
    /\ \E order \in ListingOrders :
          code_files' = [called |-> TRUE, fresh |-> TRUE, spec |-> ignore_spec,
                         files |-> GetCodeFiles(fs, Directory, ignore_spec, order)]
    /\ prev_code_files' = IF code_files.fresh THEN code_files ELSE NoResult
    /\ UNCHANGED <<mode, pc, fs, ignore_spec, tmp_dir, staged, sumvars, treevars>>

\* a write batch starts: the caller clears the staging directory
StartWriteBatch ==
    /\ mode = "stage" /\ pc = "idle"
    /\ tmp_dir' = ClearTmpFolder(tmp_dir)
    /\ staged' = [staged EXCEPT !.before = DOMAIN tmp_dir.files]
    /\ pc' = "cleared"
    /\ UNCHANGED <<mode, fs, ignore_spec, code_files, prev_code_files,
                   sumvars, treevars>>

\* ... and then calls write_files_to_tmp_directory
FinishWriteBatch ==
    /\ mode = "stage" /\ pc = "cleared"
    /\ \E order \in ListingOrders, tree \in TreeTexts, directory \in Directories :
          /\ tmp_dir' = WriteFilesToTmpDirectory(fs, directory, ignore_spec, order,
                                                 tmp_dir, tree)
          /\ staged' = LET written == GetCodeFiles(fs, directory, ignore_spec, order)
                        IN  [done |-> TRUE, fresh |-> TRUE, before |-> staged.before,
                             names |-> {written[k][Len(written[k])] :
                                           k \in 1..Len(written)},
                             directory |-> directory, tree |-> tree,
                             written |-> written]
    /\ pc' = "idle"
    /\ UNCHANGED <<mode, fs, ignore_spec, code_files, prev_code_files, sumvars, treevars>>

FilesNext ==
    \/ CreateEntry
    \/ RemoveEntry
    \/ CallGetCodeFiles

FilesSpec == FilesInit /\ [][FilesNext]_vars

StageNext ==
    \/ CreateEntry
    \/ RemoveEntry
    \/ StartWriteBatch
    \/ FinishWriteBatch

StageSpec == StageInit /\ [][StageNext]_vars

-----------------------------------------------------------------------------
(* get_tree of file_manager.py. *)

\* the deepest max_depth a call is given
MaxDepth == 3

\* max_depth = None; an int d is kept as <<d>>
None == <<>>

\* the branch glyphs of _format_tree, lines 225-227 (in ASCII)
TEE == "|-- "
ELBOW == "+-- "
PIPE == "|   "
BLANK == "    "

\* size_names, line 167
SIZE_NAMES == <<"B", "KB", "MB", "GB", "TB">>

\* the divisor of _format_size, lines 171-172
Kibi == 1024

\* the characters of the names of the model, by code point
CharOrder ==
    << ".", "D", "a", "b", "c", "d", "e", "f", "i", "j", "k", "l", "m", "n",
       "o", "p", "r", "s", "u", "v", "y" >>

Ord(c) == CHOOSE i \in 1..Len(CharOrder) : CharOrder[i] = c

\* name.lower()
Lower(name) == [i \in 1..Len(name) |-> IF name[i] = "D" THEN "d" ELSE name[i]]

\* a < b for two str
RECURSIVE StrLess(_, _)
StrLess(a, b) ==
    IF b = <<>> THEN FALSE
    ELSE IF a = <<>> THEN TRUE
    ELSE IF Head(a) = Head(b) THEN StrLess(Tail(a), Tail(b))
    ELSE Ord(Head(a)) < Ord(Head(b))

\* str(n) for n >= 0
RECURSIVE Digits(_)
Digits(n) ==
    LET digit == Lit(<<"0", "1", "2", "3", "4", "5", "6", "7", "8", "9">>[(n % 10) + 1])
    IN  IF n < 10 THEN digit ELSE Cat(Digits(n \div 10), digit)

\* n divided k times by the divisor, the fraction dropped
RECURSIVE Shifted(_, _)
Shifted(n, k) == IF k = 0 THEN n ELSE Shifted(n \div Kibi, k - 1)

RECURSIVE Power(_, _)
Power(b, e) == IF e = 0 THEN 1 ELSE b * Power(b, e - 1)

\* num / den rounded to an integer, a tie to the even one: the rounding of
\* a float under "{:.1f}"
RoundHalfEven(num, den) ==
    LET q == num \div den
        r == num % den
    IN  IF 2 * r > den \/ (2 * r = den /\ q % 2 = 1) THEN q + 1 ELSE q

\* _should_include, lines 159-160
ShouldInclude(show_hidden, name) == show_hidden \/ name[1] # "."

\* _format_size, lines 162-178
FormatSize(size_bytes) ==
    IF size_bytes = 0 THEN Cat(Lit("0"), Cat(Lit(" "), Lit("B")))
    ELSE LET steps == {k \in 0..(Len(SIZE_NAMES) - 1) : Shifted(size_bytes, k) >= 1}
             i == CHOOSE k \in steps : \A j \in steps : j <= k
             tenths == RoundHalfEven(size_bytes * 10, Power(Kibi, i))
         IN  IF i = 0
             THEN Cat(Digits(size_bytes), Cat(Lit(" "), Lit(SIZE_NAMES[1])))
             ELSE Cat(Cat(Digits(tenths \div 10), Lit(".")),
                      Cat(Digits(tenths % 10),
                          Cat(Lit(" "), Lit(SIZE_NAMES[i + 1]))))

\* the test of line 182 that passes the cutoff depth itself
DepthPassed(max_depth, current_depth) ==
    max_depth # None /\ current_depth > max_depth[1]

\* line 182: max_depth is not None and current_depth >= max_depth
DepthReached(max_depth, current_depth) ==
    max_depth # None /\ current_depth >= max_depth[1]

\* the sort key of line 188, compared: (not is_dir, name.lower())
KeyLess(t, dir, x, y) ==
    LET x_dir == t[dir \o <<x>>].kind = "dir"
        y_dir == t[dir \o <<y>>].kind = "dir"
    IN  IF x_dir # y_dir THEN x_dir ELSE StrLess(Lower(x), Lower(y))

\* list.sort of line 188: stable, an item goes after the items not above it
RECURSIVE SortItems(_, _, _)
SortItems(t, dir, items) ==
    IF items = <<>> THEN <<>>
    ELSE LET last == items[Len(items)]
             front == SortItems(t, dir, SubSeq(items, 1, Len(items) - 1))
             below == {k \in 1..Len(front) : ~KeyLess(t, dir, last, front[k])}
             at == IF below = {} THEN 0 ELSE CHOOSE k \in below : \A j \in below : j <= k
         IN  SubSeq(front, 1, at) \o <<last>> \o SubSeq(front, at + 1, Len(front))

\* _scan_directory, lines 180-209; a dict is kept as the sequence of its
\* items, a directory that cannot be listed gives {}
RECURSIVE ScanDirectory(_, _, _, _, _, _)
ScanDirectory(t, path, current_depth, show_hidden, max_depth, order) ==
    IF DepthReached(max_depth, current_depth) THEN <<>>
    ELSE IF path # <<>> /\ ~t[path].open THEN <<>>
    ELSE LET listed == SelectSeq(Listing(t, path, order),
                                 LAMBDA name : ShouldInclude(show_hidden, name))
             items == SortItems(t, path, listed)
         IN  [k \in 1..Len(items) |->
                IF t[path \o <<items[k]>>].kind = "dir"
                THEN [name |-> items[k], type |-> "directory", size |-> 0,
                      children |-> ScanDirectory(t, path \o <<items[k]>>,
                                                 current_depth + 1, show_hidden,
                                                 max_depth, order)]
                ELSE [name |-> items[k], type |-> "file",
                      size |-> t[path \o <<items[k]>>].size,
                      children |-> <<>>]]

\* the loop of lines 224-225 over is_last_list
RECURSIVE AncestorPrefix(_)
AncestorPrefix(is_last_list) ==
    IF is_last_list = <<>> THEN <<>>
    ELSE Cat(Lit(IF Head(is_last_list) THEN BLANK ELSE PIPE),
             AncestorPrefix(Tail(is_last_list)))

\* _format_tree, lines 211-242: the lines of a structure
RECURSIVE FormatTree(_, _)
FormatTree(struct, is_last_list) ==
    Concat([i \in 1..Len(struct) |->
        LET data == struct[i]
            is_last == i = Len(struct)
            line_prefix == Cat(AncestorPrefix(is_last_list),
                               Lit(IF is_last THEN ELBOW ELSE TEE))
            size_info == IF data.size > 0
                         THEN Cat(Lit(" ["), Cat(FormatSize(data.size), Lit("]")))
                         ELSE <<>>
        IN  IF data.type = "directory"
            THEN <<Cat(Cat(line_prefix, Encode(data.name)), Lit("/"))>>
                 \o FormatTree(data.children, Append(is_last_list, is_last))
            ELSE <<Cat(Cat(line_prefix, Encode(data.name)), size_info)>>])

\* a count_items that does not descend
CountTopLevel(struct) == Len(struct)

\* count_items, lines 260-265
RECURSIVE CountItems(_)
CountItems(struct) ==
    IF struct = <<>> THEN 0
    ELSE 1 + (IF Head(struct).type = "directory"
              THEN CountItems(Head(struct).children) ELSE 0)
           + CountItems(Tail(struct))

\* count_types, lines 270-280: <<dirs, files>>
RECURSIVE CountTypes(_)
CountTypes(struct) ==
    IF struct = <<>> THEN <<0, 0>>
    ELSE LET rest == CountTypes(Tail(struct))
             sub == CountTypes(Head(struct).children)
         IN  IF Head(struct).type = "directory"
             THEN <<1 + sub[1] + rest[1], sub[2] + rest[2]>>
             ELSE <<rest[1], 1 + rest[2]>>

\* the folders get_tree is called on: the root, directories, a file
Folders == {<<>>, <<SRC>>, <<SRC, BUILD>>, <<DOCKERFILE>>}

\* get_tree never called
NoCall == [called |-> FALSE, folder_path |-> <<>>, show_hidden |-> FALSE,
           max_depth |-> None]

\* f"Error: Path '{folder_path}' ..."
PathError(folder_path, what) ==
    Cat(Cat(Lit("Error: Path '"), PathStr(Directory \o folder_path)),
        Cat(Lit("' "), Lit(what)))

\* what line 254 scans, {} when the path is not a directory
Scanned(t, folder_path, show_hidden, max_depth, order) ==
    IF folder_path # <<>> /\ (folder_path \notin DOMAIN t \/ t[folder_path].kind # "dir")
    THEN <<>>
    ELSE ScanDirectory(t, folder_path, 0, show_hidden, max_depth, order)

\* get_tree, lines 245-297: the text returned
GetTreeText(t, folder_path, show_hidden, max_depth, order) ==
    LET path == Directory \o folder_path
        path_name == Encode(path[Len(path)])
        struct == Scanned(t, folder_path, show_hidden, max_depth, order)
        counts == CountTypes(struct)
        result == << Cat(path_name, Lit("/")),
                     Cat(Cat(Lit(TEE), Lit("Total items: ")), Digits(CountItems(struct))),
                     Cat(Cat(Lit(TEE), Lit("Directories: ")), Digits(counts[1])),
                     Cat(Cat(Lit(ELBOW), Lit("Files: ")), Digits(counts[2])),
                     <<>> >>
                  \o FormatTree(struct, <<>>)
    IN  IF folder_path # <<>> /\ folder_path \notin DOMAIN t
        THEN PathError(folder_path, "does not exist.")
        ELSE IF folder_path # <<>> /\ t[folder_path].kind # "dir"
        THEN PathError(folder_path, "is not a directory.")
        ELSE IF struct = <<>>
        THEN Cat(Cat(path_name, Lit("/")),
                 Cat(Lit("\n"), Cat(Lit(ELBOW), Lit("(empty directory)"))))
        ELSE Join(Lit("\n"), result)

TreeInit ==
    /\ mode = "tree"
    /\ pc = "idle"
    /\ fs \in AllTrees
    /\ ignore_spec = <<>>
    /\ code_files = NoResult
    /\ prev_code_files = NoResult
    /\ tmp_dir = NoDir
    /\ staged = NoBatch
    /\ SumIdle
    /\ TreeIdle

\* a call of get_tree(folder_path, show_hidden, max_depth)
GetTree ==
    /\ mode = "tree"
    /\ \E folder_path \in Folders, show_hidden \in BOOLEAN, order \in ListingOrders,
          max_depth \in {None} \cup {<<d>> : d \in 0..MaxDepth} :
          /\ tree_args' = [called |-> TRUE, folder_path |-> folder_path,
                           show_hidden |-> show_hidden, max_depth |-> max_depth]
          /\ structure' = Scanned(fs, folder_path, show_hidden, max_depth, order)
          /\ tree_out' = GetTreeText(fs, folder_path, show_hidden, max_depth, order)
    /\ UNCHANGED <<mode, pc, sumvars, filevars>>

TreeNext == GetTree

TreeSpec == TreeInit /\ [][TreeNext]_vars

-----------------------------------------------------------------------------
(* What the file_manager claims are stated over. *)

\* the elements of a sequence
ToSet(seq) == {seq[k] : k \in 1..Len(seq)}

\* name is a stem and then ext
EndsWith(name, ext) ==
    /\ Len(name) > Len(ext)
    /\ SubSeq(name, Len(name) - Len(ext) + 1, Len(name)) = ext

\* the extension of the name is in the registry, or the name is Dockerfile
Recognized(name) ==
    \/ \E ext \in CODE_EXTENSIONS : ext[1] = "." /\ EndsWith(name, ext)
    \/ name = <<"D", "o", "c", "k", "e", "r", "f", "i", "l", "e">>

\* every directory above p can be listed: the walk reaches p
Reached(t, p) ==
    \A k \in 1..Len(p) - 1 :
        t[SubSeq(p, 1, k)].kind = "dir" /\ t[SubSeq(p, 1, k)].open

\* the files get_code_files must return for tree t and IgnoreSpec spec
Eligible(t, spec) ==
    { Directory \o p : p \in
        { q \in DOMAIN t :
            /\ t[q].kind = "file"
            /\ Reached(t, q)
            /\ Recognized(q[Len(q)])
            /\ ~MatchFile(spec, q) } }

\* C6: get_code_files returns a path if and only if it is a file the walk
\* under the root reaches, its extension is in the registry or its name is
\* Dockerfile, and its path relative to the root does not match the
\* IgnoreSpec; no directory is returned, the IgnoreSpec is left as it was,
\* and a second call on the unchanged tree returns the same set.
C6_EligibleFiles ==
    (mode = "files" /\ code_files.called) =>
        /\ code_files.spec = ignore_spec
        /\ code_files.fresh =>
              /\ ToSet(code_files.files) = Eligible(fs, ignore_spec)
              /\ Len(code_files.files) = Cardinality(ToSet(code_files.files))
              /\ \A f \in ToSet(code_files.files) :
                    fs[RelativeTo(f, Directory)].kind # "dir"
        /\ prev_code_files.called =>
              ToSet(prev_code_files.files) = ToSet(code_files.files)

\* two calls on one tree that listed the directories in different orders; the
\* tree holds the Dockerfile (returned), a directory named like a code file
\* (not returned) and a code file the IgnoreSpec excludes
C6_Witness ==
    /\ mode = "files"
    /\ code_files.called /\ code_files.fresh /\ prev_code_files.called
    /\ prev_code_files.files # code_files.files
    /\ Directory \o <<DOCKERFILE>> \in ToSet(code_files.files)
    /\ <<LIB_PY>> \in DOMAIN fs
    /\ \E p \in DOMAIN fs :
          /\ fs[p].kind = "file" /\ Recognized(p[Len(p)])
          /\ Directory \o p \notin ToSet(code_files.files)

-----------------------------------------------------------------------------
(* What the get_tree claims are stated over: the text get_tree returned,   *)
(* read back line by line.                                                 *)

\* text.split("\n"), acc being the line read so far
RECURSIVE SplitFrom(_, _)
SplitFrom(s, acc) ==
    IF s = <<>> THEN <<acc>>
    ELSE IF Head(s).ch = "\n"
         THEN <<acc>> \o [i \in 1..(Head(s).n - 1) |-> <<>>] \o SplitFrom(Tail(s), <<>>)
         ELSE SplitFrom(Tail(s), Append(acc, Head(s)))

SplitLines(s) == SplitFrom(s, <<>>)

Glyphs == {TEE, ELBOW, PIPE, BLANK}

\* the nesting depth a tree line is drawn at: the branch glyphs before its name
RECURSIVE LineDepth(_)
LineDepth(line) ==
    IF line = <<>> THEN 0
    ELSE (IF Head(line).ch \in Glyphs THEN Head(line).n ELSE 0) + LineDepth(Tail(line))

\* a tree line of a directory ends with "/"
IsDirLine(line) == line # <<>> /\ line[Len(line)].ch = "/"

\* the name a tree line shows: what follows the glyphs, up to "/" or " ["
NameOf(line) ==
    LET shown == SelectSeq(line, LAMBDA r : r.ch \notin Glyphs)
        cut == {k \in 1..Len(shown) : shown[k].ch \in {"/", " ["}}
        end == IF cut = {} THEN Len(shown)
               ELSE (CHOOSE k \in cut : \A j \in cut : k <= j) - 1
    IN  Decode(SubSeq(shown, 1, end))

\* the text is a header, an empty line and tree lines
Rendered(lines) == Len(lines) >= 6 /\ lines[5] = <<>>

\* the tree lines of a render
Body(lines) == IF Rendered(lines) THEN SubSeq(lines, 6, Len(lines)) ELSE <<>>

HeaderLine(glyph, label, n) == Cat(Cat(Lit(glyph), Lit(label)), Digits(n))

\* the entries of tree t at nesting depth 1..d under folder that a scan can
\* see, as paths relative to folder
Shown(t, folder, show_hidden, d) ==
    IF folder # <<>> /\ (folder \notin DOMAIN t \/ t[folder].kind # "dir" \/ ~t[folder].open)
    THEN {}
    ELSE { SubSeq(p, Len(folder) + 1, Len(p)) : p \in
             { q \in DOMAIN t :
                 /\ Len(q) > Len(folder) /\ Len(q) <= Len(folder) + d
                 /\ SubSeq(q, 1, Len(folder)) = folder
                 /\ \A k \in (Len(folder) + 1)..Len(q) :
                       /\ show_hidden \/ q[k][1] # "."
                       /\ k < Len(q) => t[SubSeq(q, 1, k)].open } }

\* C7: with max_depth = d no tree line is drawn at a nesting depth above d
\* (a child of the root being at depth 1); the tree lines are exactly the
\* visible entries at depth 1..d, one line each and no other line, the header
\* counts exactly these entries, and a directory at depth d is listed with no
\* line of a child after it.
C7_DepthCutoff ==
    (mode = "tree" /\ tree_args.called /\ tree_args.max_depth # None) =>
        LET d == tree_args.max_depth[1]
            folder == tree_args.folder_path
            lines == SplitLines(tree_out)
            body == Body(lines)
            shown == Shown(fs, folder, tree_args.show_hidden, d)
            dirs == {p \in shown : fs[folder \o p].kind = "dir"}
        IN  /\ \A k \in 1..Len(body) : LineDepth(body[k]) <= d
            /\ Len(body) = Cardinality(shown)
            /\ {<<LineDepth(body[k]), NameOf(body[k]), IsDirLine(body[k])>> :
                   k \in 1..Len(body)}
               = {<<Len(p), p[Len(p)], p \in dirs>> : p \in shown}
            /\ Rendered(lines) =>
                  /\ lines[2] = HeaderLine(TEE, "Total items: ", Cardinality(shown))
                  /\ lines[3] = HeaderLine(TEE, "Directories: ", Cardinality(dirs))
                  /\ lines[4] = HeaderLine(ELBOW, "Files: ", Cardinality(shown \ dirs))
            /\ \A k \in 1..Len(body) :
                  (IsDirLine(body[k]) /\ LineDepth(body[k]) = d /\ k < Len(body)) =>
                      LineDepth(body[k + 1]) <= d

\* a render cut at depth d that lists a directory at depth d, of a tree with
\* visible entries below depth d
C7_Witness ==
    /\ mode = "tree" /\ tree_args.called /\ tree_args.max_depth # None
    /\ LET d == tree_args.max_depth[1]
           folder == tree_args.folder_path
           body == Body(SplitLines(tree_out))
       IN  /\ \E k \in 1..Len(body) : IsDirLine(body[k]) /\ LineDepth(body[k]) = d
           /\ Shown(fs, folder, tree_args.show_hidden, Cardinality(DOMAIN fs))
                 # Shown(fs, folder, tree_args.show_hidden, d)

\* the nodes of a scanned structure, each with its path
RECURSIVE NodesAt(_, _)
NodesAt(struct, dir) ==
    UNION { {<<dir \o <<struct[i].name>>, struct[i]>>}
            \cup NodesAt(struct[i].children, dir \o <<struct[i].name>>) :
            i \in 1..Len(struct) }

\* C8: in the scanned structure every directory node has size 0 and a file
\* node has the size of its file; a structure that is not empty is rendered
\* with a header whose Total items is Directories plus Files, Directories is
\* the number of directory lines and Files the number of file lines, these
\* being the directory and file nodes of the structure.
C8_TreeCounts ==
    (mode = "tree" /\ tree_args.called) =>
        LET nodes == NodesAt(structure, <<>>)
            lines == SplitLines(tree_out)
            body == Body(lines)
            dir_lines == {k \in 1..Len(body) : IsDirLine(body[k])}
            file_lines == (1..Len(body)) \ dir_lines
        IN  /\ \A pn \in nodes :
                  /\ pn[2].type = "directory" => pn[2].size = 0
                  /\ pn[2].type = "file" =>
                        /\ pn[2].size = fs[tree_args.folder_path \o pn[1]].size
                        /\ pn[2].children = <<>>
            /\ structure # <<>> => Rendered(lines)
            /\ Rendered(lines) =>
                  /\ lines[2] = HeaderLine(TEE, "Total items: ",
                                           Cardinality(dir_lines) + Cardinality(file_lines))
                  /\ lines[3] = HeaderLine(TEE, "Directories: ", Cardinality(dir_lines))
                  /\ lines[4] = HeaderLine(ELBOW, "Files: ", Cardinality(file_lines))
                  /\ Cardinality(dir_lines)
                        = Cardinality({pn \in nodes : pn[2].type = "directory"})
                  /\ Cardinality(file_lines)
                        = Cardinality({pn \in nodes : pn[2].type = "file"})

\* a render of nested directories, whose directories have a size on disk, with
\* several directory lines and file lines and an empty file
C8_Witness ==
    /\ mode = "tree" /\ tree_args.called
    /\ LET nodes == NodesAt(structure, <<>>)
           body == Body(SplitLines(tree_out))
       IN  /\ Cardinality({k \in 1..Len(body) : IsDirLine(body[k])}) >= 2
           /\ Cardinality({k \in 1..Len(body) : ~IsDirLine(body[k])}) >= 2
           /\ \E k \in 1..Len(body) : LineDepth(body[k]) >= 2
           /\ \E pn \in nodes :
                 /\ pn[2].type = "directory"
                 /\ fs[tree_args.folder_path \o pn[1]].size > 0
           /\ \E pn \in nodes : pn[2].type = "file" /\ pn[2].size = 0

-----------------------------------------------------------------------------
(* What the claim on the staged content is stated over. *)

\* the working directory a relative path would be resolved against
Cwd == << <<>>, <<"w", "o", "r", "k">> >>

\* the absolute form of a path
Absolute(path) == IF path[1] = <<>> THEN path ELSE Cwd \o path

\* the last file the batch wrote under a name
WrittenLast(name) ==
    LET same == {k \in 1..Len(staged.written) :
                    staged.written[k][Len(staged.written[k])] = name}
    IN  staged.written[CHOOSE k \in same : \A j \in same : j <= k]

\* the eligible files of the tree, relative to the directory of the batch
EligibleRel == {RelativeTo(f, Directory) : f \in Eligible(fs, ignore_spec)}

\* a write batch has ended and the tree is as the batch found it
BatchEnded == mode = "stage" /\ pc = "idle" /\ staged.done /\ staged.fresh

-----------------------------------------------------------------------------
(* What the claim on the size suffix is stated over. *)

\* what a tree line shows between " [" and "]", <<>> when it shows no suffix
SizeTextOf(line) ==
    LET opens == {k \in 1..Len(line) : line[k].ch = " ["}
    IN  IF opens = {} \/ line[Len(line)].ch # "]" THEN <<>>
        ELSE SubSeq(line, (CHOOSE k \in opens : TRUE) + 1, Len(line) - 1)

\* the size the file of a tree line has on disk: the file at the line's depth
\* with the line's name (one only in the trees of the model)
SizeOnDisk(line) ==
    LET folder == tree_args.folder_path
        at == {p \in DOMAIN fs :
                  /\ Len(p) = Len(folder) + LineDepth(line)
                  /\ SubSeq(p, 1, Len(folder)) = folder
                  /\ p[Len(p)] = NameOf(line)
                  /\ fs[p].kind = "file"}
    IN  fs[CHOOSE p \in at : TRUE].size

\* the size text the specification gives a file of n bytes
SizeText(n) ==
    IF n = 0 THEN Join(Lit(" "), <<Lit("0"), Lit("B")>>)
    ELSE IF n < Kibi THEN Join(Lit(" "), <<Digits(n), Lit("B")>>)
    ELSE LET units == {k \in 1..4 : Shifted(n, k) >= 1}
             i == CHOOSE k \in units : \A j \in units : j <= k
             tenths == RoundHalfEven(n * 10, Power(Kibi, i))
         IN  Join(Lit(" "), << Join(Lit("."), <<Digits(tenths \div 10),
                                                Digits(tenths % 10)>>),
                               Lit(<<"KB", "MB", "GB", "TB">>[i]) >>)

\* C12: every file line of a render carries a size suffix in square brackets:
\* "0 B" for an empty file, the byte count and B for 1 to 1023 bytes, and from
\* 1024 bytes on the size scaled by 1024 to the largest unit of KB, MB, GB, TB
\* that leaves it below 1024.
C12_SizeSuffix ==
    (mode = "tree" /\ tree_args.called) =>
        LET body == Body(SplitLines(tree_out))
        IN  \A k \in 1..Len(body) :
                ~IsDirLine(body[k]) =>
                    /\ body[k][Len(body[k])].ch = "]"
                    /\ SizeTextOf(body[k]) = SizeText(SizeOnDisk(body[k]))

\* the same for the files that are not empty, which is what get_tree does
C12_NonEmptyFiles ==
    (mode = "tree" /\ tree_args.called) =>
        LET body == Body(SplitLines(tree_out))
        IN  \A k \in 1..Len(body) :
                (~IsDirLine(body[k]) /\ SizeOnDisk(body[k]) > 0) =>
                    /\ body[k][Len(body[k])].ch = "]"
                    /\ SizeTextOf(body[k]) = SizeText(SizeOnDisk(body[k]))

-----------------------------------------------------------------------------
(* What the claim on a failed chunk request is stated over. *)

\* request n is a chunk request the backend failed on
ChunkFailedAt(n) == requests[n].site = "chunk" /\ ~requests[n].ok

\* after a failed chunk request n the file gets no other request, the chunk
\* requests before it were answered, and the file has its one failure entry
StopsTheFile(n) ==
    LET q == requests[n]
        mine == {m \in 1..Len(requests) : requests[m].file = q.file}
    IN  /\ \A m \in mine : m <= n /\ requests[m].site = "chunk"
        /\ \A m \in mine \ {n} : requests[m].ok
        /\ \A m \in (n + 1)..Len(requests) : requests[m].file > q.file
        /\ q.file <= Len(trail)
        /\ trail[q.file].outcome = "backend_error"
        /\ IsEntryOf(EntryIndex(q.file), file_paths[q.file], Frag("Error: ") \o q.text)
        /\ Len(results) = Len(Attempted)
        /\ driver = "local" =>
              Cardinality({e \in 1..Len(results) :
                  results[e].key = file_paths[q.file].path}) = 1

\* the claim of C13 as worded: the request after a failed chunk request
\* belongs to the file that follows in the input order
C13_NextFileRequest ==
    mode = "batch" =>
        \A n \in 1..Len(requests) :
            ChunkFailedAt(n) =>
                /\ StopsTheFile(n)
                /\ n < Len(requests) => requests[n + 1].file = requests[n].file + 1

\* C13: when the backend fails on chunk request k of a file, no other request
\* is issued for that file (no later chunk request, no merge request), the
\* file has exactly one entry, its failure, and the next request, if any,
\* belongs to the first later file of the input order that was read and is
\* not blank: the files between them were skipped or could not be read.
C13_ChunkFailureStopsFile ==
    mode = "batch" =>
        \A n \in 1..Len(requests) :
            ChunkFailedAt(n) =>
                /\ StopsTheFile(n)
                /\ n < Len(requests) =>
                      /\ requests[n + 1].file > requests[n].file
                      /\ \A j \in (requests[n].file + 1)..(requests[n + 1].file - 1) :
                            /\ trail[j].outcome \in {"skipped", "read_error"}
                            /\ RequestsOf(j) = <<>>

\* the second chunk request of the first file failed, the second file was
\* skipped and the third file got the next request
C13_Witness ==
    /\ mode = "batch"
    /\ \E n \in 2..Len(requests) - 1 :
          /\ ChunkFailedAt(n)
          /\ requests[n - 1].file = requests[n].file /\ requests[n - 1].ok
          /\ requests[n + 1].file = requests[n].file + 2
          /\ trail[requests[n].file + 1].outcome = "skipped"

====
